---- MODULE Spec2Model ----
(***************************************************************************)
(* Model of the review cache of gemini-reviewer (src/src/review-cache.ts)  *)
(* and of the review flow that uses it (getAiReview, main).                *)
(*                                                                         *)
(* JavaScript values: an optional value is None (undefined, or a key that  *)
(* is missing from a JSON object) or Some(v).  A review text is a sequence *)
(* of styled sections; the empty string is the empty sequence.  The digest *)
(* is taken as injective, so a cache key is the configuration it hashes.   *)
(***************************************************************************)
EXTENDS Naturals, Sequences, FiniteSets, TLC

VARIABLES
  MODEL_ID,       \* process.env.MODEL_ID: None when unset
  CACHE_VERSION,  \* the cache-format version constant of the running build
  cacheDir,       \* TRUE iff the directory .gitreview-cache exists
  files,          \* the files of the cache directory: file name -> content
  put,            \* the last cacheReview call, as its caller observed it
  got,            \* the getCachedReview call that has just returned
  proc,           \* the running invocation of the program (main)
  prev,           \* the preceding invocation, when it called the AI and cached
  call,           \* the call of generateCacheKey or getDiff that has returned
  writers         \* the processes that write one cache file at the same time

vars ==
  <<MODEL_ID, CACHE_VERSION, cacheDir, files, put, got, proc, prev, call,
    writers>>

None == <<>>
Some(v) == <<v>>

----------------------------------------------------------------------------
(* Bounds and input domains *)

MaxListLen == 1   \* longest focus / ignore list
MaxRuns == 2      \* invocations of the program in one behaviour

DEFAULT_MODEL == "gemini-2.5-flash-preview-04-17"

Areas == {"a"}
Lists == UNION {[1..n -> Areas] : n \in 0..MaxListLen}
OptLists == {None} \cup {Some(l) : l \in Lists}
Templates == {None, Some(""), Some("default"), Some("security")}
Reviews == {<<>>, <<"S1">>}
ModelIds == {None, Some("model-A"), Some(DEFAULT_MODEL)}

\* the fields of ProgramOptions that the cache and the review flow read
ProgramOptions == [template : Templates, focus : OptLists, ignore : OptLists]

----------------------------------------------------------------------------
(* File contents.  A content is the text of a file, taken up to what       *)
(* JSON.parse makes of it: an object with the keys it has, the value null, *)
(* a number, text that is no JSON, the prefix a failed write left behind,  *)
(* or a file that exists and cannot be read.                               *)

NoProps ==
  [version |-> None, modelId |-> None, template |-> None,
   focus |-> None, ignore |-> None, review |-> None]

Content(kind, obj) == [kind |-> kind, obj |-> obj]

Truncated == Content("truncated", NoProps)

\* JSON.stringify of an object: a key whose value is undefined is left out
JSONstringify(obj) == Content("object", obj)

\* JSON.parse followed by the property reads of lines 65-74: threw is TRUE
\* when the parse throws or when a property of null is read
JSONparse(content) ==
  IF content.kind = "object" THEN [threw |-> FALSE, cache |-> content.obj]
  ELSE IF content.kind = "number" THEN [threw |-> FALSE, cache |-> NoProps]
  ELSE [threw |-> TRUE, cache |-> NoProps]

\* a || 'default'
OrDefault(t) == IF t = None \/ t = Some("") THEN "default" ELSE t[1]

\* a ?? ''
OrEmpty(m) == IF m = None THEN "" ELSE m[1]

----------------------------------------------------------------------------
(* review-cache.ts *)

\* a derivation that leaves the ignore list out of the hashed configuration
generateCacheKey_noIgnore(diff, options) ==
  [diff |-> Some(diff), template |-> options.template, focus |-> options.focus,
   ignore |-> None, modelId |-> MODEL_ID, version |-> Some(CACHE_VERSION)]

generateCacheKey(diff, options) ==
  [diff |-> Some(diff), template |-> options.template, focus |-> options.focus,
   ignore |-> options.ignore, modelId |-> MODEL_ID,
   version |-> Some(CACHE_VERSION)]

existsSync(cacheKey) == cacheDir /\ cacheKey \in DOMAIN files

Null == [kind |-> "null", text |-> <<>>]
Undefined == [kind |-> "undefined", text |-> <<>>]
Text(t) == [kind |-> "text", text |-> t]

\* the validation without the comparison of the focus lists
EntryValid_noFocus(cache, options) ==
  ~ (\/ cache.version # Some(CACHE_VERSION)
     \/ cache.modelId # MODEL_ID
     \/ cache.template # Some(OrDefault(options.template))
     \/ cache.ignore # options.ignore)

\* the validation without the comparison of the format version
EntryValid_noVersion(cache, options) ==
  ~ (\/ cache.modelId # MODEL_ID
     \/ cache.template # Some(OrDefault(options.template))
     \/ cache.focus # options.focus
     \/ cache.ignore # options.ignore)

\* the validation of lines 64-70: TRUE when the entry is accepted
EntryValid(cache, options) ==
  ~ (\/ cache.version # Some(CACHE_VERSION)
     \/ cache.modelId # MODEL_ID
     \/ cache.template # Some(OrDefault(options.template))
     \/ cache.focus # options.focus
     \/ cache.ignore # options.ignore)

\* the lookup without the existence check: reading a missing file throws
getCachedReview_noExistsSync(cacheKey, options) ==
  IF ~ existsSync(cacheKey) THEN [result |-> Null, warned |-> TRUE]
  ELSE LET content == files[cacheKey]
           parsed == JSONparse(content)
       IN IF content.kind = "unreadable" \/ parsed.threw
          THEN [result |-> Null, warned |-> TRUE]
          ELSE IF ~ EntryValid(parsed.cache, options)
          THEN [result |-> Null, warned |-> FALSE]
          ELSE [result |-> IF parsed.cache.review = None THEN Undefined
                           ELSE Text(parsed.cache.review[1]),
                warned |-> FALSE]

getCachedReview(cacheKey, options) ==
  IF ~ existsSync(cacheKey) THEN [result |-> Null, warned |-> FALSE]
  ELSE LET content == files[cacheKey]
           parsed == JSONparse(content)
       IN IF content.kind = "unreadable" \/ parsed.threw
          THEN [result |-> Null, warned |-> TRUE]
          ELSE IF ~ EntryValid(parsed.cache, options)
          THEN [result |-> Null, warned |-> FALSE]
          ELSE [result |-> IF parsed.cache.review = None THEN Undefined
                           ELSE Text(parsed.cache.review[1]),
                warned |-> FALSE]

CacheEntry(review, options) ==
  [version |-> Some(CACHE_VERSION), modelId |-> Some(OrEmpty(MODEL_ID)),
   template |-> Some(OrDefault(options.template)), focus |-> options.focus,
   ignore |-> options.ignore, review |-> Some(review)]

\* what fs.promises.writeFile can do: write the text, fail before the file
\* is opened (EACCES; ENOENT when the directory is missing), or fail after
\* the file was opened and truncated (ENOSPC)
AllWriteOutcomes == {"ok", "EACCES", "ENOSPC", "ENOENT"}
WriteOutcomes == IF cacheDir THEN {"ok", "EACCES", "ENOSPC"} ELSE {"ENOENT"}

writeFile(cacheKey, content, outcome) ==
  IF outcome = "ok" THEN [k \in DOMAIN files \cup {cacheKey} |->
                            IF k = cacheKey THEN content ELSE files[k]]
  ELSE IF outcome = "ENOSPC" THEN [k \in DOMAIN files \cup {cacheKey} |->
                            IF k = cacheKey THEN Truncated ELSE files[k]]
  ELSE files

\* cacheReview logging the write error and throwing it again
cacheReview_rethrow(cacheKey, review, options, outcome) ==
  [files |-> writeFile(cacheKey, JSONstringify(CacheEntry(review, options)),
                       outcome),
   warned |-> outcome # "ok",
   threw |-> outcome # "ok"]

\* cacheReview opening the file for appending: a second entry after the
\* first one makes a text that is no JSON
cacheReview_append(cacheKey, review, options, outcome) ==
  [files |-> IF outcome = "ok" /\ existsSync(cacheKey)
             THEN writeFile(cacheKey, Content("garbage", NoProps), outcome)
             ELSE writeFile(cacheKey,
                            JSONstringify(CacheEntry(review, options)), outcome),
   warned |-> outcome # "ok",
   threw |-> FALSE]

cacheReview(cacheKey, review, options, outcome) ==
  [files |-> writeFile(cacheKey, JSONstringify(CacheEntry(review, options)),
                       outcome),
   warned |-> outcome # "ok",
   threw |-> FALSE]

----------------------------------------------------------------------------
(* Callers of the cache functions: the calls, with their arguments and     *)
(* what came back, are kept in put and got.                                *)

NoKey ==
  [diff |-> None, template |-> None, focus |-> None, ignore |-> None,
   modelId |-> None, version |-> None]

NoOptions == [template |-> None, focus |-> None, ignore |-> None]

\* the keys the callers pass: digests of some earlier configuration
Keys ==
  {[diff |-> Some("d1"), template |-> None, focus |-> None, ignore |-> None,
    modelId |-> Some("model-A"), version |-> Some("1")]}

NoPut ==
  [status |-> "none", key |-> NoKey, review |-> <<>>, options |-> NoOptions,
   env |-> None, ver |-> "", outcome |-> "", warned |-> FALSE,
   threw |-> FALSE, repeated |-> FALSE]

NoGet == [called |-> FALSE, key |-> NoKey, result |-> Null, warned |-> FALSE]

\* an invocation of the program; exit is the exit status ("" while running),
\* cause names the step that ended the process and steps lists, in the order
\* in which they returned or failed, the calls the invocation has made
Idle ==
  [pc |-> "idle", run |-> 0, diff |-> "", options |-> NoOptions,
   cacheKey |-> NoKey, cachedReview |-> Null, template |-> "", aiCalls |-> 0,
   review |-> <<>>, write |-> "", warnedWrite |-> FALSE, returned |-> None,
   exit |-> "", cause |-> "", steps |-> <<>>]

NoPrev == [set |-> FALSE, diff |-> "", options |-> NoOptions, env |-> None]

\* no call of generateCacheKey or getDiff has returned
NoCall == [fn |-> ""]

\* no process is writing
NoWriters == [active |-> FALSE]

\* the same call as the one put records, under the same model id and version
SamePut(k, r, o) ==
  /\ put.status = "ok"
  /\ put.key = k /\ put.review = r /\ put.options = o
  /\ put.env = MODEL_ID /\ put.ver = CACHE_VERSION

CacheReviewCall(k, r, o, outcome) ==
  LET res == cacheReview(k, r, o, outcome)
  IN /\ outcome \in WriteOutcomes
     /\ files' = res.files
     /\ put' = IF ~ res.warned /\ ~ res.threw
               THEN [status |-> "ok", key |-> k, review |-> r, options |-> o,
                     env |-> MODEL_ID, ver |-> CACHE_VERSION,
                     outcome |-> outcome, warned |-> FALSE, threw |-> FALSE,
                     repeated |-> SamePut(k, r, o)]
               ELSE [NoPut EXCEPT !.status = "failed", !.outcome = outcome,
                                  !.warned = res.warned, !.threw = res.threw,
                                  !.repeated = SamePut(k, r, o)]
     /\ got' = NoGet
     /\ UNCHANGED <<MODEL_ID, CACHE_VERSION, cacheDir, proc, prev>>
     /\ UNCHANGED <<call, writers>>

\* a lookup that unlinks the file of an entry it does not return
GetCachedReviewCall_evict(k, o) ==
  LET res == getCachedReview(k, o)
  IN /\ got' = [called |-> TRUE, key |-> k, result |-> res.result,
                warned |-> res.warned]
     /\ files' = IF res.result = Null
                 THEN [f \in DOMAIN files \ {k} |-> files[f]]
                 ELSE files
     /\ UNCHANGED <<MODEL_ID, CACHE_VERSION, cacheDir, put, proc, prev>>
     /\ UNCHANGED <<call, writers>>

GetCachedReviewCall(k, o) ==
  LET res == getCachedReview(k, o)
  IN /\ got' = [called |-> TRUE, key |-> k, result |-> res.result,
                warned |-> res.warned]
     /\ UNCHANGED <<MODEL_ID, CACHE_VERSION, cacheDir, files, put, proc, prev>>
     /\ UNCHANGED <<call, writers>>

\* the environment variable is set to another value, or unset
SetModelId(m) ==
  /\ m # MODEL_ID
  /\ MODEL_ID' = m
  /\ got' = NoGet
  /\ UNCHANGED <<CACHE_VERSION, cacheDir, files, put, proc, prev>>
  /\ UNCHANGED <<call, writers>>

\* a build with the next format version replaces the running one
BumpVersion ==
  /\ CACHE_VERSION = "1"
  /\ CACHE_VERSION' = "2"
  /\ got' = NoGet
  /\ UNCHANGED <<MODEL_ID, cacheDir, files, put, proc, prev>>
  /\ UNCHANGED <<call, writers>>

\* contents that something other than cacheReview leaves in a file
ForeignObjects ==
  [version : {Some("1")}, modelId : {None, Some("model-A")},
   template : {None, Some("default")}, focus : {None}, ignore : {None},
   review : {None, Some(<<"S1">>)}]

ForeignContents ==
  {Content(kind, NoProps) : kind \in {"garbage", "null", "number", "unreadable"}}
    \cup {Content("object", obj) : obj \in ForeignObjects}

Tamper(k, content) ==
  /\ cacheDir
  /\ files' = [f \in DOMAIN files \cup {k} |->
                 IF f = k THEN content ELSE files[f]]
  /\ put' = NoPut
  /\ got' = NoGet
  /\ UNCHANGED <<MODEL_ID, CACHE_VERSION, cacheDir, proc, prev>>
  /\ UNCHANGED <<call, writers>>

\* manual cleanup: the directory is removed with everything in it
RemoveCacheDir ==
  /\ cacheDir
  /\ cacheDir' = FALSE
  /\ files' = << >>
  /\ put' = NoPut
  /\ got' = NoGet
  /\ UNCHANGED <<MODEL_ID, CACHE_VERSION, proc, prev>>
  /\ UNCHANGED <<call, writers>>

\* the module has been imported: the cache directory exists (lines 31-33)
Init ==
  /\ MODEL_ID \in ModelIds
  /\ CACHE_VERSION = "1"
  /\ cacheDir = TRUE
  /\ files = << >>
  /\ put = NoPut
  /\ got = NoGet
  /\ proc = Idle
  /\ prev = NoPrev
  /\ call = NoCall
  /\ writers = NoWriters

Next ==
  \/ \E k \in Keys, r \in Reviews, o \in ProgramOptions,
        outcome \in AllWriteOutcomes :
       CacheReviewCall(k, r, o, outcome)
  \/ \E k \in Keys, o \in ProgramOptions : GetCachedReviewCall(k, o)
  \/ \E m \in ModelIds : SetModelId(m)
  \/ BumpVersion
  \/ \E k \in Keys, content \in ForeignContents : Tamper(k, content)
  \/ RemoveCacheDir

Spec == Init /\ [][Next]_vars

----------------------------------------------------------------------------
(* The program: one review per invocation (main, getAiReview) *)

Diffs == {"d1", "d2"}

\* the command lines and environments the invocations are started with
FlowOptions ==
  {NoOptions,
   [NoOptions EXCEPT !.template = Some("default")],
   [template |-> Some("security"), focus |-> Some(<<"a">>), ignore |-> None]}

FlowModelIds == {None, Some("model-A")}

\* response texts of the model, as their sections ("" is a blank section)
AiTexts == {<<"">>, <<"S1">>}

RECURSIVE formatReviewSection(_)
formatReviewSection(text) ==
  IF text = <<>> THEN <<>>
  ELSE IF Head(text) # "" THEN <<Head(text)>> \o formatReviewSection(Tail(text))
  ELSE formatReviewSection(Tail(text))

\* if (cachedReview)
Truthy(v) == v.kind = "text" /\ v.text # <<>>

\* the call that the step named by cause has made
StepOf(cause) ==
  CASE cause = "no changes" -> <<"getDiff">>
    [] cause = "generateContent" -> <<"generateContent">>
    [] cause = "cacheReview" -> <<"cacheReview">>
    [] cause \in {"done", "handleReviewOutput"} -> <<"handleReviewOutput">>
    [] OTHER -> <<>>

\* the process is over; prev keeps the invocation when it called the model
\* and stored the review
Exit(code, cause) ==
  /\ proc' = [Idle EXCEPT !.pc = "exited", !.run = proc.run,
                          !.write = proc.write, !.exit = code, !.cause = cause,
                          !.steps = proc.steps \o StepOf(cause)]
  /\ prev' = IF proc.aiCalls = 1 /\ proc.write = "ok"
             THEN [set |-> TRUE, diff |-> proc.diff, options |-> proc.options,
                   env |-> MODEL_ID]
             ELSE NoPrev

StartProcess(o, m) ==
  /\ proc.pc \in {"idle", "exited"}
  /\ proc.run < MaxRuns
  /\ MODEL_ID' = m
  /\ proc' = [Idle EXCEPT !.pc = "import", !.run = proc.run + 1, !.options = o]
  /\ UNCHANGED <<CACHE_VERSION, cacheDir, files, put, got, prev>>
  /\ UNCHANGED <<call, writers>>

\* review-cache.ts lines 31-33, run when the module is imported, outside any
\* try block: a failing mkdirSync ends the process
ModuleInit(mkdirOk) ==
  /\ proc.pc = "import"
  /\ IF cacheDir
     THEN /\ proc' = [proc EXCEPT !.pc = "getDiff"]
          /\ UNCHANGED <<cacheDir, prev>>
     ELSE IF mkdirOk
     THEN /\ cacheDir' = TRUE
          /\ proc' = [proc EXCEPT !.pc = "getDiff"]
          /\ UNCHANGED prev
     ELSE /\ Exit("1", "review-cache import")
          /\ UNCHANGED cacheDir
  /\ UNCHANGED <<MODEL_ID, CACHE_VERSION, files, put, got>>
  /\ UNCHANGED <<call, writers>>

\* a main that asks the model without looking into the cache
GetDiff_noLookup(d) ==
  /\ proc.pc = "getDiff"
  /\ IF d = ""
     THEN Exit("0", "no changes")
     ELSE /\ proc' = [proc EXCEPT !.pc = "loadTemplate", !.diff = d,
                                  !.cacheKey = generateCacheKey(d, proc.options),
                                  !.steps = Append(@, "getDiff")]
          /\ UNCHANGED prev
  /\ UNCHANGED <<MODEL_ID, CACHE_VERSION, cacheDir, files, put, got>>
  /\ UNCHANGED <<call, writers>>

\* main lines 34-45: an empty diff ends the invocation with status 0
GetDiff(d) ==
  /\ proc.pc = "getDiff"
  /\ IF d = ""
     THEN Exit("0", "no changes")
     ELSE /\ proc' = [proc EXCEPT !.pc = "lookup", !.diff = d,
                                  !.steps = Append(@, "getDiff")]
          /\ UNCHANGED prev
  /\ UNCHANGED <<MODEL_ID, CACHE_VERSION, cacheDir, files, put, got>>
  /\ UNCHANGED <<call, writers>>

\* getAiReview lines 69-75
Lookup ==
  /\ proc.pc = "lookup"
  /\ LET cacheKey == generateCacheKey(proc.diff, proc.options)
         res == getCachedReview(cacheKey, proc.options)
     IN proc' = [proc EXCEPT !.cacheKey = cacheKey,
                             !.cachedReview = res.result,
                             !.returned = IF Truthy(res.result)
                                          THEN Some(res.result.text) ELSE None,
                             !.pc = IF Truthy(res.result) THEN "output"
                                    ELSE "loadTemplate",
                             !.steps = Append(@, "getCachedReview")]
  /\ UNCHANGED <<MODEL_ID, CACHE_VERSION, cacheDir, files, put, got, prev>>
  /\ UNCHANGED <<call, writers>>

\* loadTemplate: the default template is read first and a failure to read it
\* is rethrown; a failure to read the requested one falls back to the default
loadTemplate(templateName, defaultOk, namedOk) ==
  LET name == IF templateName = None THEN "default" ELSE templateName[1]
  IN IF ~ defaultOk THEN [threw |-> TRUE, template |-> ""]
     ELSE IF name = "default" THEN [threw |-> FALSE, template |-> "default"]
     ELSE IF namedOk THEN [threw |-> FALSE, template |-> name]
     ELSE [threw |-> FALSE, template |-> "default"]

LoadTemplate(defaultOk, namedOk) ==
  /\ proc.pc = "loadTemplate"
  /\ LET res == loadTemplate(proc.options.template, defaultOk, namedOk)
     IN IF res.threw
        THEN Exit("1", "loadTemplate")
        ELSE /\ proc' = [proc EXCEPT !.pc = "generate",
                                     !.template = res.template]
             /\ UNCHANGED prev
  /\ UNCHANGED <<MODEL_ID, CACHE_VERSION, cacheDir, files, put, got>>
  /\ UNCHANGED <<call, writers>>

\* a flow that stores an entry without a review when the model call fails
Generate_cacheOnFailure(ok, text) ==
  /\ proc.pc = "generate"
  /\ IF ok
     THEN /\ proc' = [proc EXCEPT !.pc = "cache", !.aiCalls = @ + 1,
                                  !.review = formatReviewSection(text),
                                  !.steps = Append(@, "generateContent")]
          /\ UNCHANGED <<files, prev>>
     ELSE /\ Exit("1", "generateContent")
          /\ files' = cacheReview(proc.cacheKey, <<>>, proc.options,
                                  "ok").files
  /\ UNCHANGED <<MODEL_ID, CACHE_VERSION, cacheDir, put, got>>
  /\ UNCHANGED <<call, writers>>

\* a flow that takes a failed model call for an empty review and prints it
Generate_emptyOnFailure(ok, text) ==
  /\ proc.pc = "generate"
  /\ IF ok
     THEN proc' = [proc EXCEPT !.pc = "cache", !.aiCalls = @ + 1,
                               !.review = formatReviewSection(text),
                               !.steps = Append(@, "generateContent")]
     ELSE proc' = [proc EXCEPT !.pc = "output", !.returned = Some(<<>>),
                               !.steps = Append(@, "generateContent")]
  /\ UNCHANGED <<MODEL_ID, CACHE_VERSION, cacheDir, files, put, got, prev>>
  /\ UNCHANGED <<call, writers>>

\* getAiReview lines 95-97: the model answers with a text, or the call fails
Generate(ok, text) ==
  /\ proc.pc = "generate"
  /\ IF ok
     THEN /\ proc' = [proc EXCEPT !.pc = "cache", !.aiCalls = @ + 1,
                                  !.review = formatReviewSection(text),
                                  !.steps = Append(@, "generateContent")]
          /\ UNCHANGED prev
     ELSE Exit("1", "generateContent")
  /\ UNCHANGED <<MODEL_ID, CACHE_VERSION, cacheDir, files, put, got>>
  /\ UNCHANGED <<call, writers>>

\* getAiReview lines 100-102
Cache(outcome) ==
  /\ proc.pc = "cache"
  /\ outcome \in WriteOutcomes
  /\ LET res == cacheReview(proc.cacheKey, proc.review, proc.options, outcome)
     IN /\ files' = res.files
        /\ IF res.threw
           THEN Exit("1", "cacheReview")
           ELSE /\ proc' = [proc EXCEPT !.pc = "output", !.write = outcome,
                                        !.warnedWrite = res.warned,
                                        !.returned = Some(proc.review),
                                        !.steps = Append(@, "cacheReview")]
                /\ UNCHANGED prev
  /\ UNCHANGED <<MODEL_ID, CACHE_VERSION, cacheDir, put, got>>
  /\ UNCHANGED <<call, writers>>

\* main lines 61-70, handleReviewOutput
Output(ok) ==
  /\ proc.pc = "output"
  /\ IF ok THEN Exit("0", "done") ELSE Exit("1", "handleReviewOutput")
  /\ UNCHANGED <<MODEL_ID, CACHE_VERSION, cacheDir, files, put, got>>
  /\ UNCHANGED <<call, writers>>

\* before the program has ever run in this working directory
InitFlow ==
  /\ MODEL_ID = None
  /\ CACHE_VERSION = "1"
  /\ cacheDir = FALSE
  /\ files = << >>
  /\ put = NoPut
  /\ got = NoGet
  /\ proc = Idle
  /\ prev = NoPrev
  /\ call = NoCall
  /\ writers = NoWriters

NextFlow ==
  \/ \E o \in FlowOptions, m \in FlowModelIds : StartProcess(o, m)
  \/ \E mkdirOk \in BOOLEAN : ModuleInit(mkdirOk)
  \/ \E d \in Diffs \cup {""} : GetDiff(d)
  \/ Lookup
  \/ \E defaultOk \in BOOLEAN, namedOk \in BOOLEAN : LoadTemplate(defaultOk, namedOk)
  \/ \E ok \in BOOLEAN, text \in AiTexts : Generate(ok, text)
  \/ \E outcome \in AllWriteOutcomes : Cache(outcome)
  \/ \E ok \in BOOLEAN : Output(ok)

SpecFlow == InitFlow /\ [][NextFlow]_vars

----------------------------------------------------------------------------
(* Key derivation on its own: generateCacheKey is called with every field  *)
(* of ProgramOptions, under a model id and format version that may change  *)
(* between two calls.                                                      *)

\* focus / ignore lists whose elements come in both orders
OrderedLists ==
  {None, Some(<<>>), Some(<<"a", "b">>), Some(<<"b", "a">>)}

\* the fields of ProgramOptions that generateCacheKey does not read
UnreadFields ==
  {[commit |-> None, branch |-> None, last |-> FALSE, output |-> None,
    exclude |-> None],
   [commit |-> Some("abc123"), branch |-> Some("main"), last |-> TRUE,
    output |-> Some("review.md"), exclude |-> Some(<<"dist">>)]}

\* ProgramOptions with all its fields (review-cache.ts lines 10-19)
FullOptions ==
  {[commit |-> u.commit, branch |-> u.branch, last |-> u.last,
    output |-> u.output, exclude |-> u.exclude, focus |-> f, ignore |-> i,
    template |-> t] :
     u \in UnreadFields, f \in OrderedLists,
     i \in OrderedLists \ {Some(<<>>)},
     t \in {None, Some(""), Some("default")}}

KeyModelIds == {None, Some("model-A")}

GenerateCacheKeyCall(diff, options) ==
  /\ call' = [fn |-> "generateCacheKey", diff |-> diff, options |-> options,
              env |-> MODEL_ID, ver |-> CACHE_VERSION,
              key |-> generateCacheKey(diff, options)]
  /\ UNCHANGED <<MODEL_ID, CACHE_VERSION, cacheDir, files, put, got, proc,
                 prev, writers>>

InitKey ==
  /\ MODEL_ID \in KeyModelIds
  /\ CACHE_VERSION = "1"
  /\ cacheDir = TRUE
  /\ files = << >>
  /\ put = NoPut
  /\ got = NoGet
  /\ proc = Idle
  /\ prev = NoPrev
  /\ call = NoCall
  /\ writers = NoWriters

NextKey ==
  \/ \E diff \in Diffs, options \in FullOptions :
       GenerateCacheKeyCall(diff, options)
  \/ \E m \in KeyModelIds : SetModelId(m)
  \/ BumpVersion

SpecKey == InitKey /\ [][NextKey]_vars

----------------------------------------------------------------------------
(* git.ts: getDiff.  A repository is the number of commits reachable from  *)
(* HEAD, the revisions git can resolve besides HEAD and the branches       *)
(* `git branch` lists.  git answers each command of the call with a text   *)
(* or rejects it.                                                          *)

MaxCommits == 2   \* most commits in the history of the repository

emptyTree == "4b825dc642cb6eb9a060e54bf8d69288fbee4904"

\* options.commit, options.branch, options.exclude and options.last
GitOptions ==
  [commit : {None, Some(""), Some("abc123"), Some("nosuch")},
   branch : {None, Some("main"), Some("gone")},
   exclude : {None, Some(<<>>), Some(<<"dist">>), Some(<<"dist", "lock">>)},
   last : BOOLEAN]

\* a repository without commits has nothing to resolve; one with commits
\* may know the commit abc123 and may have the remote branch origin/main
Repositories ==
  {[commits |-> 0, revisions |-> {}, branches |-> {}]}
    \cup {[commits |-> n, revisions |-> c \cup o,
           branches |-> IF o = {} THEN {"main"}
                        ELSE {"main", "remotes/origin/main"}] :
            n \in 1..MaxCommits, c \in {{}, {"abc123"}},
            o \in {{}, {"origin/main"}}}

\* what git does with the commands of one call: whether `git branch` and
\* `git diff` succeed when their arguments resolve, and the text of the diff
Replies == [branchOk : BOOLEAN, diffOk : BOOLEAN, text : {"", "D1"}]

\* a string of JavaScript that is neither undefined nor empty
Given(s) == s # None /\ s # Some("")

\* git.raw(['rev-list', 'HEAD', '--count']) and Number.parseInt: the number
\* of commits reachable from HEAD; git rejects the command when HEAD names
\* no commit, which is the case of a repository without commits
revList(repo) ==
  IF repo.commits = 0 THEN [threw |-> TRUE, commitCount |-> 0]
  ELSE [threw |-> FALSE, commitCount |-> repo.commits]

RECURSIVE flatMapExclude(_)
flatMapExclude(patterns) ==
  IF patterns = <<>> THEN <<>>
  ELSE <<":(exclude)", Head(patterns)>> \o flatMapExclude(Tail(patterns))

\* exclude arguments that stop at the first pattern
excludeArgs_firstOnly(options) ==
  IF options.exclude = None \/ options.exclude = Some(<<>>) THEN <<>>
  ELSE <<":(exclude)", Head(options.exclude[1])>>

\* options.exclude?.flatMap(...) ?? []
excludeArgs(options) ==
  IF options.exclude = None THEN <<>> ELSE flatMapExclude(options.exclude[1])

\* git.diff rejects when a revision of its arguments does not resolve, and
\* may reject otherwise
diffRejects(revisions, repo, reply) ==
  \/ ~ reply.diffOk
  \/ \E i \in 1..Len(revisions) :
       revisions[i] \notin
         repo.revisions \cup {emptyTree, "HEAD"}
           \cup (IF repo.commits >= 2 THEN {"HEAD^"} ELSE {})

\* the outcomes of getDiff: `return`, or process.exit(1) after the message
Returned(value, diffs, branchListed) ==
  [kind |-> "returned", value |-> value, status |-> "", message |-> "",
   diffs |-> diffs, branchListed |-> branchListed]

Exited(message, diffs, branchListed) ==
  [kind |-> "exited", value |-> "", status |-> "1", message |-> message,
   diffs |-> diffs, branchListed |-> branchListed]

\* a mode that takes a rejected diff for "no changes"
diffAgainst_swallow(revisions, options, repo, reply, message, branchListed) ==
  LET args == excludeArgs(options) \o revisions
  IN IF diffRejects(revisions, repo, reply)
     THEN Returned("", <<args>>, branchListed)
     ELSE Returned(reply.text, <<args>>, branchListed)

\* one mode of getDiff: git.diff([...excludeArgs, ...revisions]) and
\* `return diff || ''`, or the message of the catch that takes the rejection
diffAgainst(revisions, options, repo, reply, message, branchListed) ==
  LET args == excludeArgs(options) \o revisions
  IN IF diffRejects(revisions, repo, reply)
     THEN Exited(message, <<args>>, branchListed)
     ELSE Returned(reply.text, <<args>>, branchListed)

\* getDiff, lines 10-64.  process.exit(1) ends the process: nothing is
\* returned to the caller
getDiff(options, repo, reply) ==
  LET hasCommits == revList(repo)
      commitCount == hasCommits.commitCount
  IN IF hasCommits.threw THEN Exited("Error getting git diff", <<>>, FALSE)
     ELSE IF commitCount = 0 THEN Returned("", <<>>, FALSE)
     ELSE IF Given(options.commit)
     THEN diffAgainst(<<options.commit[1]>>, options, repo, reply,
                      "Invalid commit hash or commit not found", FALSE)
     ELSE IF Given(options.branch)
     THEN IF ~ reply.branchOk
          THEN Exited("Error accessing branch", <<>>, FALSE)
          ELSE IF ("remotes/origin/" \o options.branch[1]) \notin repo.branches
          THEN Exited("Branch not found", <<>>, TRUE)
          ELSE diffAgainst(<<"origin/" \o options.branch[1]>>, options, repo,
                           reply, "Error accessing branch", TRUE)
     ELSE IF commitCount = 1
     THEN diffAgainst(<<emptyTree, "HEAD">>, options, repo, reply,
                      "Error getting git diff", FALSE)
     ELSE diffAgainst(<<"HEAD^", "HEAD">>, options, repo, reply,
                      "Error getting git diff", FALSE)

\* no outcome yet
NoResult ==
  [kind |-> "", value |-> "", status |-> "", message |-> "", diffs |-> <<>>,
   branchListed |-> FALSE]

\* the getDiff calls that can be made, before they are made
GetDiffCalls ==
  [fn : {"getDiff"}, options : GitOptions, repo : Repositories,
   reply : Replies, done : {FALSE}, result : {NoResult}]

GetDiffCall ==
  /\ call.fn = "getDiff"
  /\ ~ call.done
  /\ call' = [call EXCEPT !.done = TRUE,
                          !.result = getDiff(call.options, call.repo,
                                             call.reply)]
  /\ UNCHANGED <<MODEL_ID, CACHE_VERSION, cacheDir, files, put, got, proc,
                 prev, writers>>

InitGit ==
  /\ MODEL_ID = None
  /\ CACHE_VERSION = "1"
  /\ cacheDir = FALSE
  /\ files = << >>
  /\ put = NoPut
  /\ got = NoGet
  /\ proc = Idle
  /\ prev = NoPrev
  /\ call \in GetDiffCalls
  /\ writers = NoWriters

NextGit == GetDiffCall

SpecGit == InitGit /\ [][NextGit]_vars

----------------------------------------------------------------------------
(* Two processes that store a review under the same key at the same time.  *)
(* Each imports review-cache.ts (existsSync, then mkdirSync) and calls     *)
(* cacheReview; fs.promises.writeFile opens the file with flag 'w', which  *)
(* creates or truncates it, writes the text through its own descriptor     *)
(* from offset 0 and closes.  The text of the file is kept in writers.disk *)
(* as a sequence of pieces, and files holds what JSON.parse makes of it.   *)

Writers == {1, 2}

\* the key both processes write, and the options they were given
RaceKey == CHOOSE k \in Keys : TRUE
RaceOptions == NoOptions

\* the reviews the model gave to the two processes, of different lengths
RaceReviews == {<<"S1">>, <<"S2">>, <<"S1", "S2">>}

\* JSON.stringify(cacheEntry, null, 2) as text: the opening brace, the
\* fields before the review, the sections of the review, the closing brace
EntryText(review) == <<"{", "head">> \o review \o <<"}">>

\* the text of a file after data was written at the offset of a descriptor
Overwrite(bytes, offset, data) ==
  LET end == IF Len(bytes) > offset + Len(data) THEN Len(bytes)
             ELSE offset + Len(data)
  IN [i \in 1..end |->
        IF i > offset /\ i <= offset + Len(data) THEN data[i - offset]
        ELSE IF i <= Len(bytes) THEN bytes[i]
        ELSE "\\0"]

\* the text is one complete entry
WellFormed(bytes) ==
  /\ Len(bytes) >= 3
  /\ bytes[1] = "{"
  /\ bytes[2] = "head"
  /\ bytes[Len(bytes)] = "}"
  /\ \A i \in 3..(Len(bytes) - 1) : bytes[i] \in {"S1", "S2"}

\* what a reader finds in a file with this text
ContentOf(bytes) ==
  IF bytes = <<>> THEN Truncated
  ELSE IF WellFormed(bytes)
  THEN JSONstringify(CacheEntry(SubSeq(bytes, 3, Len(bytes) - 1),
                                RaceOptions))
  ELSE Content("garbage", NoProps)

\* review-cache.ts line 31: fs.existsSync(CACHE_DIR)
ImportCheck(p) ==
  /\ writers.active
  /\ writers.procs[p].pc = "import"
  /\ writers' = [writers EXCEPT
                   !.procs[p].pc = IF cacheDir THEN "ready" ELSE "mkdir"]
  /\ UNCHANGED <<MODEL_ID, CACHE_VERSION, cacheDir, files, put, got, proc,
                 prev, call>>

\* review-cache.ts line 32: fs.mkdirSync(CACHE_DIR) throws when the other
\* process has created the directory since the check, and the import fails
Mkdir(p) ==
  /\ writers.active
  /\ writers.procs[p].pc = "mkdir"
  /\ IF cacheDir
     THEN /\ writers' = [writers EXCEPT !.procs[p].pc = "crashed"]
          /\ UNCHANGED cacheDir
     ELSE /\ writers' = [writers EXCEPT !.procs[p].pc = "ready"]
          /\ cacheDir' = TRUE
  /\ UNCHANGED <<MODEL_ID, CACHE_VERSION, files, put, got, proc, prev, call>>

\* a writeFile that opens the file for appending
WriteFileOpen_append(p) ==
  /\ writers.active
  /\ writers.procs[p].pc = "ready"
  /\ writers' = [writers EXCEPT !.procs[p].pc = "opened",
                                !.procs[p].offset = Len(writers.disk)]
  /\ files' = [f \in DOMAIN files \cup {RaceKey} |->
                 IF f = RaceKey THEN ContentOf(writers.disk) ELSE files[f]]
  /\ UNCHANGED <<MODEL_ID, CACHE_VERSION, cacheDir, put, got, proc, prev,
                 call>>

\* cacheReview line 96, writeFile: open(path, 'w') creates the file or
\* truncates it
WriteFileOpen(p) ==
  /\ writers.active
  /\ writers.procs[p].pc = "ready"
  /\ writers' = [writers EXCEPT !.procs[p].pc = "opened",
                                !.procs[p].offset = 0,
                                !.disk = <<>>]
  /\ files' = [f \in DOMAIN files \cup {RaceKey} |->
                 IF f = RaceKey THEN ContentOf(<<>>) ELSE files[f]]
  /\ UNCHANGED <<MODEL_ID, CACHE_VERSION, cacheDir, put, got, proc, prev,
                 call>>

\* cacheReview line 96, writeFile: the entry is written at the offset of
\* the descriptor
WriteFileWrite(p) ==
  /\ writers.active
  /\ writers.procs[p].pc = "opened"
  /\ LET bytes == Overwrite(writers.disk, writers.procs[p].offset,
                            EntryText(writers.procs[p].review))
     IN /\ writers' = [writers EXCEPT !.procs[p].pc = "written",
                                      !.disk = bytes,
                                      !.last = p]
        /\ files' = [f \in DOMAIN files \cup {RaceKey} |->
                       IF f = RaceKey THEN ContentOf(bytes) ELSE files[f]]
  /\ UNCHANGED <<MODEL_ID, CACHE_VERSION, cacheDir, put, got, proc, prev,
                 call>>

\* cacheReview line 96, writeFile: the descriptor is closed and the await
\* of line 96 returns
WriteFileClose(p) ==
  /\ writers.active
  /\ writers.procs[p].pc = "written"
  /\ writers' = [writers EXCEPT !.procs[p].pc = "done"]
  /\ UNCHANGED <<MODEL_ID, CACHE_VERSION, cacheDir, files, put, got, proc,
                 prev, call>>

\* both processes are started, in a working directory with or without the
\* cache directory, each with the review it is about to store
InitRace ==
  /\ MODEL_ID = Some("model-A")
  /\ CACHE_VERSION = "1"
  /\ cacheDir \in BOOLEAN
  /\ files = << >>
  /\ put = NoPut
  /\ got = NoGet
  /\ proc = Idle
  /\ prev = NoPrev
  /\ call = NoCall
  /\ writers \in
       [active : {TRUE}, disk : {<<>>}, last : {0},
        procs : [Writers -> [pc : {"import"}, review : RaceReviews,
                             offset : {0}]]]

NextRace ==
  \/ \E p \in Writers : ImportCheck(p)
  \/ \E p \in Writers : Mkdir(p)
  \/ \E p \in Writers : WriteFileOpen(p)
  \/ \E p \in Writers : WriteFileWrite(p)
  \/ \E p \in Writers : WriteFileClose(p)
  \/ GetCachedReviewCall(RaceKey, RaceOptions)

SpecRace == InitRace /\ [][NextRace]_vars

----------------------------------------------------------------------------
(* The cache functions called with the options of the review flow, on a    *)
(* store that holds every kind of content.                                 *)

NextStore ==
  \/ \E k \in Keys, r \in Reviews, o \in FlowOptions,
        outcome \in AllWriteOutcomes :
       CacheReviewCall(k, r, o, outcome)
  \/ \E k \in Keys, o \in FlowOptions : GetCachedReviewCall(k, o)
  \/ \E m \in ModelIds : SetModelId(m)
  \/ BumpVersion
  \/ \E k \in Keys, content \in ForeignContents : Tamper(k, content)
  \/ RemoveCacheDir

SpecStore == Init /\ [][NextStore]_vars

----------------------------------------------------------------------------
(* The prompt of getAiReview, lines 80-93.  A text is a sequence of pieces: *)
(* a placeholder of a template, a replacement pattern of String.replace    *)
(* ("$$", "$&", "$`", "$'") or a piece of plain text.                      *)

\* the templates shipped with the tool: each has the placeholder of the
\* diff after its instructions and no other placeholder; security.txt goes
\* on with source code in which "${diff}" occurs once more
ShippedTemplates ==
  [default |-> <<"default.txt 1-27", "${diff}">>,
   security |-> <<"security.txt 1-30", "${diff}", "security.txt 32-109",
                  "${diff}", "security.txt 110-159">>,
   performance |-> <<"performance.txt 1-30", "${diff}">>]

\* diffs of plain text, and diffs of files that contain replacement
\* patterns or the placeholders themselves
PromptDiffs ==
  {<<"d1">>, <<"d2">>, <<"d1", "$&">>, <<"$$", "d1">>, <<"d1", "$'">>,
   <<"${focusInstructions}", "d1">>}

PromptLists == {None, Some(<<>>), Some(<<"a">>), Some(<<"a", "b">>)}

\* the first position of the piece in the text, 0 when it does not occur
RECURSIVE indexOf(_, _)
indexOf(text, piece) ==
  IF text = <<>> THEN 0
  ELSE IF Head(text) = piece THEN 1
  ELSE LET i == indexOf(Tail(text), piece)
       IN IF i = 0 THEN 0 ELSE i + 1

\* the replacement string as String.replace inserts it: "$$" is a dollar
\* sign, "$&" the matched text, "$`" and "$'" the text before and after it
RECURSIVE expand(_, _, _, _)
expand(replacement, matched, before, after) ==
  IF replacement = <<>> THEN <<>>
  ELSE LET piece == Head(replacement)
           rest == expand(Tail(replacement), matched, before, after)
       IN IF piece = "$$" THEN <<"$">> \o rest
          ELSE IF piece = "$&" THEN <<matched>> \o rest
          ELSE IF piece = "$`" THEN before \o rest
          ELSE IF piece = "$'" THEN after \o rest
          ELSE <<piece>> \o rest

\* text.replace(pattern, replacement) with a string pattern: the first
\* occurrence only
replace(text, pattern, replacement) ==
  LET i == indexOf(text, pattern)
  IN IF i = 0 THEN text
     ELSE LET before == SubSeq(text, 1, i - 1)
              after == SubSeq(text, i + 1, Len(text))
          IN before \o expand(replacement, pattern, before, after) \o after

\* areas.map(area => `- ${area}`), the lines that join('\n') puts together
RECURSIVE areaLines(_)
areaLines(areas) ==
  IF areas = <<>> THEN <<>>
  ELSE <<"- " \o Head(areas)>> \o areaLines(Tail(areas))

\* lines 81-83
focusInstructions(options) ==
  IF options.focus # None /\ Len(options.focus[1]) # 0
  THEN <<"Specifically focus on and prioritize these areas in your review:">>
         \o areaLines(options.focus[1])
  ELSE <<>>

\* lines 85-87
ignoreInstructions(options) ==
  IF options.ignore # None /\ Len(options.ignore[1]) # 0
  THEN <<"Skip or minimize attention to these areas unless critical:">>
         \o areaLines(options.ignore[1])
  ELSE <<>>

\* lines 90-93
buildPrompt(template, diff, options) ==
  replace(replace(replace(template, "${diff}", diff),
                  "${focusInstructions}", focusInstructions(options)),
          "${ignoreInstructions}", ignoreInstructions(options))

\* the prompts that can be built, before they are built
PromptCalls ==
  [fn : {"prompt"}, template : DOMAIN ShippedTemplates, diff : PromptDiffs,
   options : [focus : PromptLists, ignore : PromptLists], done : {FALSE},
   prompt : {<<>>}]

BuildPromptCall ==
  /\ call.fn = "prompt"
  /\ ~ call.done
  /\ call' = [call EXCEPT !.done = TRUE,
                          !.prompt = buildPrompt(ShippedTemplates[call.template],
                                                 call.diff, call.options)]
  /\ UNCHANGED <<MODEL_ID, CACHE_VERSION, cacheDir, files, put, got, proc,
                 prev, writers>>

InitPrompt ==
  /\ MODEL_ID = None
  /\ CACHE_VERSION = "1"
  /\ cacheDir = TRUE
  /\ files = << >>
  /\ put = NoPut
  /\ got = NoGet
  /\ proc = Idle
  /\ prev = NoPrev
  /\ call \in PromptCalls
  /\ writers = NoWriters

NextPrompt == BuildPromptCall

SpecPrompt == InitPrompt /\ [][NextPrompt]_vars

----------------------------------------------------------------------------
(* Properties *)

\* the model id the AI client is configured with (ai-reviewer, lines 14-16)
ConfiguredModelId == IF MODEL_ID = None THEN DEFAULT_MODEL ELSE MODEL_ID[1]

\* the entry of the recorded cacheReview call is still the content of its
\* file, and the model id and format version are those of the call
PutUnchanged ==
  /\ put.status = "ok"
  /\ put.env = MODEL_ID
  /\ put.ver = CACHE_VERSION

\* C1: round trip. After a cacheReview(k, r, o) that wrote, and with the
\* model id (set or unset) and the format version unchanged,
\* getCachedReview(k, o) returns exactly r.
RoundTrip ==
  PutUnchanged =>
    getCachedReview(put.key, put.options) =
      [result |-> Text(put.review), warned |-> FALSE]

\* C2: an invocation with the diff, the options and the environment of the
\* preceding invocation, which called the model and stored its review, finds
\* that entry and does not call the model.
SecondRunHits ==
  (/\ prev.set
   /\ proc.pc \in {"loadTemplate", "generate", "cache", "output"}
   /\ proc.diff = prev.diff
   /\ proc.options = prev.options
   /\ MODEL_ID = prev.env)
    => Truthy(proc.cachedReview) /\ proc.aiCalls = 0

\* o2 differs from o in template, focus or ignore, as written
Differs(o, o2) ==
  o2.template # o.template \/ o2.focus # o.focus \/ o2.ignore # o.ignore

\* o2 differs from o in focus or ignore, or in the template once an absent
\* or empty template is read as "default"
Drifts(o, o2) ==
  \/ OrDefault(o2.template) # OrDefault(o.template)
  \/ o2.focus # o.focus
  \/ o2.ignore # o.ignore

\* C3 as stated: after cacheReview(k, r, o), getCachedReview(k, o2) is
\* absent for every o2 that differs from o in template, focus or ignore,
\* an absent or empty template against "default" included.
InvalidationOnAnyDifference ==
  put.status = "ok" =>
    \A o2 \in ProgramOptions :
      Differs(put.options, o2) => getCachedReview(put.key, o2).result = Null

\* C3 amended: after cacheReview(k, r, o), getCachedReview(k, o2) is absent
\* for every o2 whose focus or ignore differs from that of o, or whose
\* template differs from that of o once an absent or empty template counts
\* as "default".
InvalidationOnDrift ==
  put.status = "ok" =>
    \A o2 \in ProgramOptions :
      Drifts(put.options, o2) => getCachedReview(put.key, o2).result = Null

\* a live entry (its own options are served) is refused to a request that
\* differs in the focus list only, and a lookup has just returned absent
DriftWitness ==
  /\ PutUnchanged
  /\ getCachedReview(put.key, put.options).result = Text(put.review)
  /\ \E o2 \in ProgramOptions :
       /\ o2.focus # put.options.focus
       /\ o2.template = put.options.template
       /\ o2.ignore = put.options.ignore
       /\ getCachedReview(put.key, o2).result = Null
  /\ got.called /\ got.key = put.key /\ got.result = Null

\* C4: an entry written while the format version is "1" is absent for the
\* same key, options and model id once the version is "2".
InvalidationOnVersionBump ==
  (/\ put.status = "ok"
   /\ put.ver = "1"
   /\ CACHE_VERSION = "2"
   /\ put.env = MODEL_ID)
    => getCachedReview(put.key, put.options) =
         [result |-> Null, warned |-> FALSE]

\* the entry was written under "1" with a model id that is set and is still
\* the same, the version is now "2", and a lookup has just returned absent
VersionBumpWitness ==
  /\ put.status = "ok" /\ put.ver = "1" /\ CACHE_VERSION = "2"
  /\ put.env = MODEL_ID /\ MODEL_ID # None
  /\ got.called /\ got.key = put.key /\ got.result = Null /\ ~ got.warned

\* "defaulting to default when absent"
WhenAbsentDefault(t) == IF t = None THEN "default" ELSE t[1]

\* the validity of a stored record for a request, as C5 states it
ValidAsStated(cache, options) ==
  /\ cache.version = Some(CACHE_VERSION)
  /\ cache.modelId = Some(ConfiguredModelId)
  /\ WhenAbsentDefault(cache.template) = WhenAbsentDefault(options.template)
  /\ cache.focus = options.focus
  /\ cache.ignore = options.ignore

\* C5: for a file whose content parses as a record, getCachedReview returns
\* the stored review exactly when version, configured model id, template
\* (both sides defaulting to "default" when absent), focus and ignore agree,
\* and returns absent, without an error, on every mismatch.
ValidationIff ==
  \A k \in DOMAIN files, o \in ProgramOptions :
    (cacheDir /\ files[k].kind = "object") =>
      LET cache == files[k].obj
          res == getCachedReview(k, o)
      IN IF ValidAsStated(cache, o)
         THEN res.result = (IF cache.review = None THEN Undefined
                            ELSE Text(cache.review[1]))
         ELSE res = [result |-> Null, warned |-> FALSE]

\* C6: getCachedReview on a key that has no file (the directory may be
\* missing too) returns absent and logs no warning.
MissOnAbsentFile ==
  /\ \A k \in Keys, o \in ProgramOptions :
       ~ (cacheDir /\ k \in DOMAIN files) =>
         getCachedReview(k, o) = [result |-> Null, warned |-> FALSE]
  /\ (got.called /\ ~ (cacheDir /\ got.key \in DOMAIN files)) =>
       (got.result = Null /\ ~ got.warned)

\* the cache directory is missing and a lookup has just returned
MissOnAbsentFileWitness ==
  /\ ~ cacheDir
  /\ got.called /\ got.key \notin DOMAIN files
  /\ got.result = Null /\ ~ got.warned

\* contents that are unreadable or do not parse to a record
NotARecord == {"unreadable", "garbage", "truncated", "null", "number"}

\* C7: getCachedReview on a key whose file is unreadable or does not parse
\* to a record returns absent and logs a warning.
CorruptionWarns ==
  (/\ got.called
   /\ cacheDir /\ got.key \in DOMAIN files
   /\ files[got.key].kind \in NotARecord)
    => (got.result = Null /\ got.warned)

\* C8: when the write inside cacheReview fails, a warning is logged, no
\* error reaches getAiReview, and getAiReview returns the review.
WriteFailureSwallowed ==
  /\ proc.cause # "cacheReview"
  /\ proc.write \in {"EACCES", "ENOSPC", "ENOENT"} =>
       \/ /\ proc.pc = "output"
          /\ proc.warnedWrite
          /\ proc.returned = Some(proc.review)
          /\ proc.exit = ""
       \/ /\ proc.pc = "exited"
          /\ proc.cause \in {"done", "handleReviewOutput"}

\* the disk filled up during the write and the review is about to be printed
WriteFailureWitness ==
  /\ proc.pc = "output"
  /\ proc.write = "ENOSPC"
  /\ proc.warnedWrite
  /\ proc.review # <<>>
  /\ proc.returned = Some(proc.review)

\* C9: no failure of a storage step of the cache (directory creation at
\* import, existence check, read, parse, write) ends the process.
CacheNeverFatal ==
  proc.cause \notin {"review-cache import", "getCachedReview", "cacheReview"}

\* C10: a cacheReview call that writes, with the key, review, options, model
\* id and version of the preceding call that wrote, leaves the store as it
\* was, and every getCachedReview returns what it returned before.
IdempotentWrite ==
  [][(put'.repeated /\ put'.outcome = "ok" /\ put' # put) =>
       /\ put'.status = "ok"
       /\ files' = files
       /\ cacheDir' = cacheDir
       /\ \A o \in ProgramOptions :
            getCachedReview(put.key, o)' = getCachedReview(put.key, o)]_vars

\* the same review was written twice and a lookup has just returned it
IdempotentWriteWitness ==
  /\ PutUnchanged
  /\ put.repeated
  /\ put.review # <<>>
  /\ got.called /\ got.key = put.key /\ got.result = Text(put.review)

\* the generateCacheKey call that call records would be given the same diff
\* text, template, focus list, ignore list, model id and format version
SameKeyInputs(diff, options) ==
  /\ diff = call.diff
  /\ options.template = call.options.template
  /\ options.focus = call.options.focus
  /\ options.ignore = call.options.ignore
  /\ MODEL_ID = call.env
  /\ CACHE_VERSION = call.ver

\* C11: key derivation is determined by, and only by, its six inputs. The
\* key of an earlier generateCacheKey call equals the key of a call made now
\* if and only if both have the same diff text, template, focus list,
\* ignore list (element order included), model id (the value of the
\* environment variable, unset being a value) and format version; commit,
\* branch, last, output and exclude play no part.
KeyDeterminedByInputs ==
  call.fn = "generateCacheKey" =>
    \A diff \in Diffs, options \in FullOptions :
      (generateCacheKey(diff, options) = call.key)
        <=> SameKeyInputs(diff, options)

\* a key was derived for an ignore list of two areas; the options with the
\* two areas swapped and those with other commit, branch, last, output and
\* exclude are both among the options compared with it
KeyDeterminedByInputsWitness ==
  /\ call.fn = "generateCacheKey"
  /\ call.options.ignore = Some(<<"a", "b">>)
  /\ call.options.commit = None
  /\ MODEL_ID = call.env /\ CACHE_VERSION = call.ver
  /\ \E options \in FullOptions :
       /\ options.commit # None
       /\ generateCacheKey(call.diff, options) = call.key
  /\ generateCacheKey(call.diff,
                      [call.options EXCEPT !.ignore = Some(<<"b", "a">>)])
       # call.key

\* C12: one model identifier in three places. In every invocation the model
\* id compared by the validation, the model id hashed into the derived key
\* and the model id written into the entry are each the identifier the AI
\* client is configured with: the value of the environment variable or,
\* when it is unset, the default model name.
ActiveModelIdEverywhere ==
  /\ proc.pc = "lookup" =>
       \A r \in Reviews :
         EntryValid([CacheEntry(r, proc.options)
                       EXCEPT !.modelId = Some(ConfiguredModelId)],
                    proc.options)
  /\ proc.cacheKey # NoKey =>
       proc.cacheKey.modelId = Some(ConfiguredModelId)
  /\ (proc.pc = "output" /\ proc.write = "ok") =>
       files[proc.cacheKey].obj.modelId = Some(ConfiguredModelId)

\* C13: an entry is created only after a review was produced. The files of
\* the cache directory change only in the cacheReview step of an invocation
\* whose lookup missed and whose model call has returned a response; the
\* step in which the template load or the model call fails, and the lookup
\* that hits, leave every file as it is, and no write was attempted before.
CacheOnlyAfterReview ==
  [][/\ files' # files =>
          /\ proc.pc = "cache"
          /\ proc.aiCalls = 1
          /\ ~ Truthy(proc.cachedReview)
     /\ proc'.cause \in {"loadTemplate", "generateContent"} =>
          files' = files /\ proc'.write = ""
     /\ Truthy(proc'.cachedReview) =>
          files' = files /\ proc'.write = ""]_vars

\* the second invocation ended in a failed model call, with the file of
\* the first one in the cache directory
CacheOnlyAfterReviewWitness ==
  /\ proc.pc = "exited"
  /\ proc.run = 2
  /\ proc.cause = "generateContent"
  /\ DOMAIN files # {}

\* C14: entries are never mutated and never deleted. In every step of a
\* sequence of invocations, one process at a time, each file of the cache
\* directory is still there afterwards, and a file that holds a complete
\* entry holds the same entry afterwards.
WriteOnceNeverRemoved ==
  [][\A k \in DOMAIN files :
       /\ k \in DOMAIN files'
       /\ files[k].kind = "object" => files'[k] = files[k]]_vars

\* C15: getCachedReview is read-only. Every step in which a getCachedReview
\* call returns, whatever the key or the options and whether the file is
\* valid, invalid, corrupt or absent, leaves the cache directory, the set of
\* its files and the content of each file as they were.
LookupReadOnly ==
  [][(got'.called /\ got' # got) =>
       /\ cacheDir' = cacheDir
       /\ files' = files]_vars

\* a lookup has just found a file that does not parse and has reported it;
\* the file is still there
LookupReadOnlyWitness ==
  /\ got.called
  /\ got.warned
  /\ got.key \in DOMAIN files
  /\ files[got.key].kind \in {"garbage", "truncated"}

\* s is an initial part of t
IsPrefix(s, t) ==
  /\ Len(s) <= Len(t)
  /\ \A i \in 1..Len(s) : s[i] = t[i]

\* C16: the steps of one invocation happen strictly in the order
\* version-control read, cache lookup, AI call, cache write, output, the AI
\* call and the cache write being left out on a hit. At every moment the
\* calls made so far are an initial part of that order, so the lookup never
\* precedes the diff and the AI call never precedes the lookup, and the
\* lookup is made with a diff that is not empty.
StepsInOrder ==
  /\ \/ IsPrefix(proc.steps,
                 <<"getDiff", "getCachedReview", "generateContent",
                   "cacheReview", "handleReviewOutput">>)
     \/ IsPrefix(proc.steps,
                 <<"getDiff", "getCachedReview", "handleReviewOutput">>)
  /\ proc.pc = "lookup" => proc.diff # ""

\* an invocation that missed has made all five calls
StepsInOrderWitness ==
  /\ proc.pc = "exited"
  /\ Len(proc.steps) = 5
  /\ proc.steps[3] = "generateContent"

\* the revisions of the one comparison that the options select
SelectedRevisions(options, repo) ==
  IF Given(options.commit) THEN <<options.commit[1]>>
  ELSE IF Given(options.branch) THEN <<"origin/" \o options.branch[1]>>
  ELSE IF repo.commits = 1 THEN <<emptyTree, "HEAD">>
  ELSE <<"HEAD^", "HEAD">>

\* C18: one comparison, by priority commit, branch, last commit. A getDiff
\* call issues at most one diff, and exactly one when it returns; the
\* arguments of the diff are the exclude pair of every pattern of
\* options.exclude, in order, followed by the commit when one is given,
\* else by origin/<branch> when a branch is given, the branch having been
\* found in the branch list, else by the empty tree and HEAD when the
\* history has one commit and by HEAD^ and HEAD when it has more; the value
\* returned is the text git answered.
OneComparisonByPriority ==
  (call.fn = "getDiff" /\ call.done) =>
    LET options == call.options
        result == call.result
        patterns == IF options.exclude = None THEN <<>>
                    ELSE options.exclude[1]
        revisions == SelectedRevisions(options, call.repo)
    IN /\ Len(result.diffs) <= 1
       /\ result.kind = "returned" =>
            Len(result.diffs) = 1 /\ result.value = call.reply.text
       /\ result.diffs # <<>> =>
            LET args == result.diffs[1]
            IN /\ Len(args) = 2 * Len(patterns) + Len(revisions)
               /\ \A i \in 1..Len(patterns) :
                    /\ args[2 * i - 1] = ":(exclude)"
                    /\ args[2 * i] = patterns[i]
               /\ SubSeq(args, 2 * Len(patterns) + 1, Len(args)) = revisions
               /\ (~ Given(options.commit) /\ Given(options.branch)) =>
                    /\ result.branchListed
                    /\ ("remotes/origin/" \o options.branch[1])
                         \in call.repo.branches

\* a branch comparison with two exclude patterns has returned the text of
\* git, the commit option being the empty string
OneComparisonByPriorityWitness ==
  /\ call.fn = "getDiff"
  /\ call.done
  /\ call.options.commit = Some("")
  /\ call.options.branch = Some("main")
  /\ call.options.exclude = Some(<<"dist", "lock">>)
  /\ call.result.kind = "returned"
  /\ call.result.value = "D1"

\* C19: no commits is an empty result, not an error. A getDiff call in a
\* repository without commits returns the empty string, whatever the
\* options, without issuing a diff and without ending the process.
NoCommitsEmptyResult ==
  (call.fn = "getDiff" /\ call.done /\ call.repo.commits = 0) =>
    /\ call.result.kind = "returned"
    /\ call.result.value = ""
    /\ call.result.diffs = <<>>
    /\ call.result.status # "1"

\* the call is given a commit that git cannot resolve
InvalidCommit ==
  /\ Given(call.options.commit)
  /\ call.options.commit[1] \notin call.repo.revisions

\* the call is given a branch that is not among the remote branches
MissingBranch ==
  /\ ~ Given(call.options.commit)
  /\ Given(call.options.branch)
  /\ ("remotes/origin/" \o call.options.branch[1]) \notin call.repo.branches

BothWritten ==
  /\ writers.active
  /\ \A p \in Writers : writers.procs[p].pc = "done"

\* the text of the last writer followed by what its write left of the
\* longer text of the other writer
Overlaid ==
  LET mine == EntryText(writers.procs[writers.last].review)
      theirs == EntryText(writers.procs[3 - writers.last].review)
  IN /\ Len(mine) < Len(theirs)
     /\ writers.disk = mine \o SubSeq(theirs, Len(mine) + 1, Len(theirs))

\* a lookup made now returns absent or the review of one of the two puts
AbsentOrPut ==
  writers.active =>
    getCachedReview(RaceKey, RaceOptions).result
      \in {Null} \cup {Text(writers.procs[p].review) : p \in Writers}

\* C17 as stated: two processes store under the same key at the same time.
\* Under every interleaving of their file operations, once both writes are
\* complete the file holds the complete entry of the last writer, and a
\* lookup at any point returns absent or the review of one of the two puts.
LastWriterWins ==
  /\ BothWritten =>
       /\ writers.disk = EntryText(writers.procs[writers.last].review)
       /\ files[RaceKey] =
            JSONstringify(CacheEntry(writers.procs[writers.last].review,
                                     RaceOptions))
  /\ AbsentOrPut

\* C17, amended: once both writes are complete the file holds the complete
\* entry of the last writer or, when the last writer's entry is the shorter
\* one and both had opened the file before either wrote, that entry
\* followed by the rest of the other, which does not parse and is a miss;
\* a lookup at any point returns absent or the review of one of the two
\* puts, never another text.
LastWriterWinsOrMiss ==
  /\ BothWritten =>
       \/ /\ writers.disk = EntryText(writers.procs[writers.last].review)
          /\ files[RaceKey] =
               JSONstringify(CacheEntry(writers.procs[writers.last].review,
                                        RaceOptions))
       \/ /\ Overlaid
          /\ JSONparse(files[RaceKey]).threw
          /\ getCachedReview(RaceKey, RaceOptions).result = Null
  /\ AbsentOrPut

\* both writes are complete and the file holds the shorter entry of the
\* last writer followed by the end of the longer one
OverlaidWitness ==
  /\ BothWritten
  /\ Overlaid
  /\ files[RaceKey].kind = "garbage"
  /\ getCachedReview(RaceKey, RaceOptions) = [result |-> Null, warned |-> TRUE]

\* C21: loadTemplate falls back on any load failure. Whatever template is
\* requested and whichever template file cannot be read, loadTemplate
\* returns a prompt text and the review goes on: no invocation ends in
\* loadTemplate.
TemplateLoadNeverFatal ==
  proc.pc = "exited" => proc.cause # "loadTemplate"

Contains(prompt, text) ==
  \E i \in 0..(Len(prompt) - Len(text)) :
    SubSeq(prompt, i + 1, i + Len(text)) = text

\* C23: the instruction blocks reach the model. For every shipped template,
\* the prompt built for a focus list that is not empty contains the focus
\* block with one line for each area, and the prompt built for an ignore
\* list that is not empty contains the ignore block with one line for each
\* area.
PromptHasInstructions ==
  (call.fn = "prompt" /\ call.done) =>
    /\ focusInstructions(call.options) # <<>> =>
         /\ Contains(call.prompt, focusInstructions(call.options))
         /\ \A i \in 1..Len(call.options.focus[1]) :
              Contains(call.prompt, <<"- " \o call.options.focus[1][i]>>)
    /\ ignoreInstructions(call.options) # <<>> =>
         /\ Contains(call.prompt, ignoreInstructions(call.options))
         /\ \A i \in 1..Len(call.options.ignore[1]) :
              Contains(call.prompt, <<"- " \o call.options.ignore[1][i]>>)

\* C24: the diff reaches the model verbatim. For every diff, one that
\* contains placeholders or replacement patterns included, the prompt built
\* on a cache miss contains the text of the diff unchanged.
PromptHasDiffVerbatim ==
  (call.fn = "prompt" /\ call.done) => Contains(call.prompt, call.diff)

\* C25: a hit returns the stored text. Whenever the lookup of an invocation
\* has returned a stored review text, the empty text included, getAiReview
\* returns exactly that text, and the invocation has loaded no template,
\* has not called the model and has not written to the cache.
HitReturnsStoredText ==
  proc.cachedReview.kind = "text" =>
    /\ proc.pc = "output"
    /\ proc.returned = Some(proc.cachedReview.text)
    /\ proc.steps = <<"getDiff", "getCachedReview">>
    /\ proc.aiCalls = 0
    /\ proc.write = ""

\* C26: the entry records what produced the review. After the cacheReview
\* of an invocation has written, the modelId of the entry is the model the
\* AI client is configured with, also with the environment variable unset,
\* and the template of the entry is the template whose text was loaded,
\* also after the fallback to the default.
EntryRecordsWhatWasUsed ==
  (proc.pc = "output" /\ proc.write = "ok") =>
    /\ files[proc.cacheKey].obj.modelId = Some(ConfiguredModelId)
    /\ files[proc.cacheKey].obj.template = Some(proc.template)

====
